---- MODULE Spec2Model ----
(***************************************************************************)
(* Model of testcase-markdown (src/src/lib.rs): get_test_cases walks the   *)
(* top-level nodes of a parsed markdown document, keeps a stack of open    *)
(* sections with their options, collects code blocks as arguments and      *)
(* emits a TestCase at every heading and at the end of the document.       *)
(***************************************************************************)
EXTENDS Integers, Sequences, FiniteSets, TLC

VARIABLES
    root_options,    \* the root_options argument of get_test_cases
    section_stack,   \* SectionStack: [root_options, sections]
    test_cases,      \* the local Vec<TestCase> of get_test_cases
    args,            \* the local Vec<String> of pending arguments
    visited,         \* the nodes the for loop has taken so far, in order
    pc,              \* "scan" | "returned" | "panicked"
    result,          \* what the caller received: <<>> or <<test_cases>>
    panic_message    \* <<>> or the payload of the panic

vars == <<root_options, section_stack, test_cases, args, visited, pc, result,
          panic_message>>

----------------------------------------------------------------------------
(* Bounds *)

MaxNodes == 4        \* nodes of a freely chosen document
MaxDepth == 3        \* heading depths 1..MaxDepth

----------------------------------------------------------------------------
(* Option<T> as a sequence of length 0 or 1 *)

None == <<>>
Some(x) == <<x>>

Last(s) == s[Len(s)]
Front(s) == SubSeq(s, 1, Len(s) - 1)

----------------------------------------------------------------------------
(* The Options type of the tests and its MergeSerialized implementation *)

OptionsDefault == [foo |-> 0, bar |-> FALSE]

IntegerValue(i) == [type |-> "integer", v |-> Some(i), b |-> None]
BooleanValue(b) == [type |-> "boolean", v |-> None, b |-> Some(b)]

\* toml::from_str::<Table> on the texts that occur in the documents
from_str(source) ==
    CASE source = "foo = 5" ->
            [ok |-> TRUE, table |-> [foo |-> IntegerValue(5)]]
      [] source = "foo = 11" ->
            [ok |-> TRUE, table |-> [foo |-> IntegerValue(11)]]
      [] source = "bar = true" ->
            [ok |-> TRUE, table |-> [bar |-> BooleanValue(TRUE)]]
      [] source = "bar = false" ->
            [ok |-> TRUE, table |-> [bar |-> BooleanValue(FALSE)]]
      [] source = "foo = 5\nbar = true" ->
            [ok |-> TRUE, table |-> [foo |-> IntegerValue(5),
                                     bar |-> BooleanValue(TRUE)]]
      [] source = "foo = true" ->
            [ok |-> TRUE, table |-> [foo |-> BooleanValue(TRUE)]]
      [] source = "" ->
            [ok |-> TRUE, table |-> <<>>]
      [] OTHER ->
            [ok |-> FALSE, error |-> "TOML parse error"]

\* values.get(key)
TableGet(table, key) ==
    IF key \in DOMAIN table THEN Some(table[key]) ELSE None

as_integer(value) == IF value.type = "integer" THEN value.v ELSE None
as_bool(value) == IF value.type = "boolean" THEN value.b ELSE None

\* Option::and_then
AndThenInteger(opt) == IF opt = None THEN None ELSE as_integer(opt[1])
AndThenBool(opt) == IF opt = None THEN None ELSE as_bool(opt[1])

\* Option::unwrap_or
UnwrapOr(opt, default) == IF opt = None THEN default ELSE opt[1]

\* a merge that is not sparse: an absent field falls back to the default
merge_serialized_replace(self, source) ==
    LET values == from_str(source) IN
    IF ~values.ok
    THEN [ok |-> FALSE, error |-> values.error]
    ELSE [ok |-> TRUE,
          value |-> [foo |-> UnwrapOr(AndThenInteger(TableGet(values.table, "foo")),
                                      OptionsDefault.foo),
                     bar |-> UnwrapOr(AndThenBool(TableGet(values.table, "bar")),
                                      OptionsDefault.bar)]]

merge_serialized(self, source) ==
    LET values == from_str(source) IN
    IF ~values.ok
    THEN [ok |-> FALSE, error |-> values.error]
    ELSE [ok |-> TRUE,
          value |-> [foo |-> UnwrapOr(AndThenInteger(TableGet(values.table, "foo")),
                                      self.foo),
                     bar |-> UnwrapOr(AndThenBool(TableGet(values.table, "bar")),
                                      self.bar)]]

----------------------------------------------------------------------------
(* mdast nodes *)

Text(value) == [kind |-> "Text", value |-> value]
Emphasis(value) == [kind |-> "Emphasis", value |-> value]

Heading(depth, children, line) ==
    [kind |-> "Heading", depth |-> depth, children |-> children,
     meta |-> None, value |-> "", line |-> line]

Code(meta, value, line) ==
    [kind |-> "Code", depth |-> 0, children |-> <<>>,
     meta |-> meta, value |-> value, line |-> line]

Paragraph(line) ==
    [kind |-> "Paragraph", depth |-> 0, children |-> <<>>,
     meta |-> None, value |-> "", line |-> line]

----------------------------------------------------------------------------
(* SectionStack *)

Section(depth, name, line, options) ==
    [depth |-> depth, name |-> name, line |-> line, options |-> options]

SectionStack_new(root) == [root_options |-> root, sections |-> <<>>]

\* first() in place of last()
get_options_first(stack) ==
    IF stack.sections # <<>>
    THEN stack.sections[1].options
    ELSE stack.root_options

get_options(stack) ==
    IF stack.sections # <<>>
    THEN Last(stack.sections).options
    ELSE stack.root_options

\* retain with <= in place of <
retain_le(sections, depth) ==
    SelectSeq(sections, LAMBDA s : s.depth <= depth)

\* self.sections.retain(|s| s.depth < depth)
retain(sections, depth) ==
    SelectSeq(sections, LAMBDA s : s.depth < depth)

\* the let-else of push_heading: "unwrap" | "plain_text" | "ok"
HeadingLabel(heading) ==
    IF heading.children = <<>>
    THEN [outcome |-> "unwrap", value |-> ""]
    ELSE IF heading.children[1].kind # "Text"
    THEN [outcome |-> "plain_text", value |-> ""]
    ELSE [outcome |-> "ok", value |-> heading.children[1].value]

\* push_heading that reads the options before the retain
push_heading_stale(stack, heading) ==
    LET text == HeadingLabel(heading).value
        depth == heading.depth
        section == Section(depth, text, heading.line, get_options(stack))
    IN  [stack EXCEPT !.sections = Append(retain(stack.sections, depth), section)]

\* push_heading when the let-else succeeds
push_heading(stack, heading) ==
    LET text == HeadingLabel(heading).value
        depth == heading.depth
        retained == [stack EXCEPT !.sections = retain(stack.sections, depth)]
        section == Section(depth, text, heading.line, get_options(retained))
    IN  [retained EXCEPT !.sections = Append(retained.sections, section)]

\* set_options that writes the root options as well
set_options_and_root(stack, options) ==
    IF stack.sections # <<>>
    THEN [stack EXCEPT !.sections[Len(stack.sections)].options = options,
                       !.root_options = options]
    ELSE [stack EXCEPT !.root_options = options]

\* set_options without the else branch
set_options_no_root(stack, options) ==
    IF stack.sections # <<>>
    THEN [stack EXCEPT !.sections[Len(stack.sections)].options = options]
    ELSE stack

\* set_options that writes every open section
set_options_all(stack, options) ==
    IF stack.sections # <<>>
    THEN [stack EXCEPT !.sections =
             [i \in 1..Len(stack.sections) |->
                 [stack.sections[i] EXCEPT !.options = options]]]
    ELSE [stack EXCEPT !.root_options = options]

set_options(stack, options) ==
    IF stack.sections # <<>>
    THEN [stack EXCEPT !.sections[Len(stack.sections)].options = options]
    ELSE [stack EXCEPT !.root_options = options]

get_headings(stack) ==
    [i \in 1..Len(stack.sections) |-> stack.sections[i].name]

----------------------------------------------------------------------------
(* TestCase *)

UnnamedTest == "(Unnamed test)"

\* TestCase::new without the pop of the name off the headings
TestCase_new_full_path(a, stack) ==
    LET options == get_options(stack)
        headings == get_headings(stack)
    IN  [name |-> IF headings # <<>> THEN Last(headings) ELSE UnnamedTest,
         headings |-> headings,
         line_number |-> IF stack.sections # <<>>
                         THEN Last(stack.sections).line ELSE 0,
         options |-> options,
         args |-> a]

TestCase_new(a, stack) ==
    LET options == get_options(stack)
        headings == get_headings(stack)
    IN  [name |-> IF headings # <<>> THEN Last(headings) ELSE UnnamedTest,
         headings |-> IF headings # <<>> THEN Front(headings) ELSE <<>>,
         line_number |-> IF stack.sections # <<>>
                         THEN Last(stack.sections).line ELSE 0,
         options |-> options,
         args |-> a]

\* push_test_case without the test of a.len()
push_test_case_always(cases, stack, a) ==
    [test_cases |-> Append(cases, TestCase_new(a, stack)), args |-> <<>>]

\* push_test_case with a.clone() in place of take(a)
push_test_case_keep(cases, stack, a) ==
    IF Len(a) > 0
    THEN [test_cases |-> Append(cases, TestCase_new(a, stack)), args |-> a]
    ELSE [test_cases |-> cases, args |-> a]

\* the closure push_test_case: the new [test_cases, args]
push_test_case(cases, stack, a) ==
    IF Len(a) > 0
    THEN [test_cases |-> Append(cases, TestCase_new(a, stack)), args |-> <<>>]
    ELSE [test_cases |-> cases, args |-> a]

----------------------------------------------------------------------------
(* Documents *)

\* The nodes a freely chosen document may have on a given line
NodeSet(line) ==
    {Heading(d, <<Text("A")>>, line) : d \in 1..MaxDepth}
    \cup {Heading(1, <<Text("B")>>, line),
          Heading(1, <<>>, line),
          Heading(1, <<Emphasis("A")>>, line),
          Heading(2, <<Text("A"), Emphasis("B")>>, line)}
    \cup {Code(Some("options"), v, line) : v \in {"foo = 5", "bar = true", "foo = "}}
    \cup {Code(None, "x", line), Code(Some("sh"), "y", line)}
    \cup {Paragraph(line)}

\* The nodes that may follow the visited ones in a freely chosen document
FreeNodes ==
    IF Len(visited) < MaxNodes THEN NodeSet(Len(visited) + 1) ELSE {}

\* The root_options a caller passes
RootChoices == {OptionsDefault, [foo |-> 7, bar |-> TRUE]}

\* The nodes of the fixture of test_basic up to the end of "Pear", without
\* its second options block
FixtureBase(i, line) ==
    CASE i = 1 -> Heading(1, <<Text("Tests")>>, line)
      [] i = 2 -> Heading(2, <<Text("Fruits")>>, line)
      [] i = 3 -> Code(Some("options"), "foo = 5\nbar = true", line)
      [] i = 4 -> Heading(3, <<Text("Apple")>>, line)
      [] i = 5 -> Code(None, "Granny Smith", line)
      [] i = 6 -> Code(None, "red", line)
      [] i = 7 -> Heading(3, <<Text("Pear")>>, line)
      [] i = 8 -> Code(None, "Bartlett", line)
      [] i = 9 -> Code(None, "yellow", line)

FixtureLen == 9

\* The fixture with the options block "bar = false" after its first k nodes
FixtureDoc(k) ==
    [i \in 1..(FixtureLen + 1) |->
        IF i <= k THEN FixtureBase(i, i)
        ELSE IF i = k + 1 THEN Code(Some("options"), "bar = false", i)
        ELSE FixtureBase(i - 1, i)]

FixtureDocs == {FixtureDoc(k) : k \in 0..FixtureLen}

\* The nodes that may follow the visited ones in a document of the fixture
FixtureNodes ==
    {d[Len(visited) + 1] :
        d \in {e \in FixtureDocs : /\ Len(visited) < Len(e)
                                   /\ SubSeq(e, 1, Len(visited)) = visited}}

----------------------------------------------------------------------------
(* get_test_cases *)

Init ==
    /\ root_options \in RootChoices
    /\ section_stack = SectionStack_new(root_options)
    /\ test_cases = <<>>
    /\ args = <<>>
    /\ visited = <<>>
    /\ pc = "scan"
    /\ result = None
    /\ panic_message = None

\* a heading that flushes only when it closes the innermost section
ScanHeading_flush_on_close(candidates) ==
    \E node \in candidates :
        /\ pc = "scan"
        /\ node.kind = "Heading"
        /\ HeadingLabel(node).outcome = "ok"
        /\ LET closes == \/ section_stack.sections = <<>>
                         \/ node.depth <= Last(section_stack.sections).depth
               flushed == IF closes
                          THEN push_test_case(test_cases, section_stack, args)
                          ELSE [test_cases |-> test_cases, args |-> args]
           IN  /\ test_cases' = flushed.test_cases
               /\ args' = flushed.args
        /\ section_stack' = push_heading(section_stack, node)
        /\ visited' = Append(visited, node)
        /\ UNCHANGED <<root_options, pc, result, panic_message>>

\* Node::Heading(heading), the let-else of push_heading succeeds
ScanHeading(candidates) ==
    \E node \in candidates :
        /\ pc = "scan"
        /\ node.kind = "Heading"
        /\ HeadingLabel(node).outcome = "ok"
        /\ LET flushed == push_test_case(test_cases, section_stack, args) IN
           /\ test_cases' = flushed.test_cases
           /\ args' = flushed.args
        /\ section_stack' = push_heading(section_stack, node)
        /\ visited' = Append(visited, node)
        /\ UNCHANGED <<root_options, pc, result, panic_message>>

\* Node::Heading(heading), push_heading panics
ScanHeadingPanic(candidates) ==
    \E node \in candidates :
        /\ pc = "scan"
        /\ node.kind = "Heading"
        /\ HeadingLabel(node).outcome # "ok"
        /\ LET flushed == push_test_case(test_cases, section_stack, args) IN
           /\ test_cases' = flushed.test_cases
           /\ args' = flushed.args
        /\ pc' = "panicked"
        /\ panic_message' =
              IF HeadingLabel(node).outcome = "unwrap"
              THEN Some(<<"called Option::unwrap() on a None value">>)
              ELSE Some(<<"Markdown headings must contain plain text.">>)
        /\ visited' = Append(visited, node)
        /\ UNCHANGED <<root_options, section_stack, result>>

\* an options block whose text is pushed onto the arguments as well
ScanOptions_args(candidates) ==
    \E node \in candidates :
        /\ pc = "scan"
        /\ node.kind = "Code"
        /\ node.meta = Some("options")
        /\ LET merged == merge_serialized(get_options(section_stack), node.value) IN
           /\ merged.ok
           /\ section_stack' = set_options(section_stack, merged.value)
        /\ args' = Append(args, node.value)
        /\ visited' = Append(visited, node)
        /\ UNCHANGED <<root_options, test_cases, pc, result, panic_message>>

\* an options block that flushes the pending arguments before its merge
ScanOptions_flush(candidates) ==
    \E node \in candidates :
        /\ pc = "scan"
        /\ node.kind = "Code"
        /\ node.meta = Some("options")
        /\ LET flushed == push_test_case(test_cases, section_stack, args) IN
           /\ test_cases' = flushed.test_cases
           /\ args' = flushed.args
        /\ LET merged == merge_serialized(get_options(section_stack), node.value) IN
           /\ merged.ok
           /\ section_stack' = set_options(section_stack, merged.value)
        /\ visited' = Append(visited, node)
        /\ UNCHANGED <<root_options, pc, result, panic_message>>

\* Node::Code(code) with meta "options", merge_serialized returns Ok
ScanOptions(candidates) ==
    \E node \in candidates :
        /\ pc = "scan"
        /\ node.kind = "Code"
        /\ node.meta = Some("options")
        /\ LET merged == merge_serialized(get_options(section_stack), node.value) IN
           /\ merged.ok
           /\ section_stack' = set_options(section_stack, merged.value)
        /\ visited' = Append(visited, node)
        /\ UNCHANGED <<root_options, test_cases, args, pc, result, panic_message>>

\* a rejected options block that is skipped instead of panicking
ScanOptionsPanic_skip(candidates) ==
    \E node \in candidates :
        /\ pc = "scan"
        /\ node.kind = "Code"
        /\ node.meta = Some("options")
        /\ ~merge_serialized(get_options(section_stack), node.value).ok
        /\ visited' = Append(visited, node)
        /\ UNCHANGED <<root_options, section_stack, test_cases, args, pc, result,
                       panic_message>>

\* Node::Code(code) with meta "options", merge_serialized returns Err
ScanOptionsPanic(candidates) ==
    \E node \in candidates :
        /\ pc = "scan"
        /\ node.kind = "Code"
        /\ node.meta = Some("options")
        /\ LET merged == merge_serialized(get_options(section_stack), node.value) IN
           /\ ~merged.ok
           /\ panic_message' =
                 Some(<<"Failed to parse options from code block at line {}: {}",
                        node.line, merged.error>>)
        /\ pc' = "panicked"
        /\ visited' = Append(visited, node)
        /\ UNCHANGED <<root_options, section_stack, test_cases, args, result>>

\* Node::Code(code) with any other meta
ScanData(candidates) ==
    \E node \in candidates :
        /\ pc = "scan"
        /\ node.kind = "Code"
        /\ node.meta # Some("options")
        /\ args' = Append(args, node.value)
        /\ visited' = Append(visited, node)
        /\ UNCHANGED <<root_options, section_stack, test_cases, pc, result,
                       panic_message>>

\* any other node
ScanOther(candidates) ==
    \E node \in candidates :
        /\ pc = "scan"
        /\ node.kind \notin {"Heading", "Code"}
        /\ visited' = Append(visited, node)
        /\ UNCHANGED <<root_options, section_stack, test_cases, args, pc, result,
                       panic_message>>

\* the end of the for loop: the last push_test_case and the return
Return(ended) ==
    /\ pc = "scan"
    /\ ended
    /\ LET flushed == push_test_case(test_cases, section_stack, args) IN
       /\ test_cases' = flushed.test_cases
       /\ args' = flushed.args
       /\ result' = Some(flushed.test_cases)
    /\ pc' = "returned"
    /\ UNCHANGED <<root_options, section_stack, visited, panic_message>>

Next ==
    \/ ScanHeading(FreeNodes)
    \/ ScanHeadingPanic(FreeNodes)
    \/ ScanOptions(FreeNodes)
    \/ ScanOptionsPanic(FreeNodes)
    \/ ScanData(FreeNodes)
    \/ ScanOther(FreeNodes)
    \/ Return(TRUE)

Spec == Init /\ [][Next]_vars

\* get_test_cases on the documents of the fixture
NextFixture ==
    \/ ScanHeading(FixtureNodes)
    \/ ScanOptions(FixtureNodes)
    \/ ScanData(FixtureNodes)
    \/ Return(visited \in FixtureDocs)

SpecFixture == Init /\ [][NextFixture]_vars

----------------------------------------------------------------------------
(* The outline of the visited document, read off the nodes themselves.     *)
(* Node i of a document is on line i.                                      *)

Max(S) == CHOOSE x \in S : \A y \in S : y <= x

IsOptionsBlock(node) == node.kind = "Code" /\ node.meta = Some("options")
IsDataBlock(node) == node.kind = "Code" /\ node.meta # Some("options")

\* the nodes the loop has finished with (a panic leaves the last one unfinished)
Done == IF pc = "panicked" THEN Len(visited) - 1 ELSE Len(visited)

HeadingsUpTo(p) == {i \in 1..p : visited[i].kind = "Heading"}

\* the heading whose section is innermost after node p, 0 when there is none
InnermostAt(p) == IF HeadingsUpTo(p) = {} THEN 0 ELSE Max(HeadingsUpTo(p))

\* the section of heading h is open after node p
OpenAt(h, p) ==
    /\ h \in HeadingsUpTo(p)
    /\ \A j \in HeadingsUpTo(p) : j > h => visited[j].depth > visited[h].depth

\* the headings whose sections are open after node p, outermost first
OpenPath(p) ==
    LET open == {h \in 1..p : OpenAt(h, p)}
        RECURSIVE Sorted(_)
        Sorted(S) == IF S = {} THEN <<>>
                     ELSE Append(Sorted(S \ {Max(S)}), Max(S))
    IN  Sorted(open)

\* the options blocks in scope after node p: those before the first heading
\* and those directly inside a section that is open after node p
InScope(k, p) ==
    /\ k \in 1..p
    /\ IsOptionsBlock(visited[k])
    /\ InnermostAt(k) = 0 \/ OpenAt(InnermostAt(k), p)

\* root_options overlaid with the first k nodes' options blocks in scope after p
RECURSIVE Overlay(_, _)
Overlay(k, p) ==
    IF k = 0 THEN root_options
    ELSE IF InScope(k, p)
    THEN merge_serialized(Overlay(k - 1, p), visited[k].value).value
    ELSE Overlay(k - 1, p)

Resolved(p) == Overlay(p, p)

\* the end of the interval of heading h (of the start of the document for
\* h = 0): the next heading, or one past the visited nodes
IntervalEnd(h) ==
    LET later == {j \in HeadingsUpTo(Len(visited)) : j > h}
    IN  IF later = {} THEN Len(visited) + 1
        ELSE CHOOSE j \in later : \A i \in later : j <= i

\* the interval of heading h is over: a later heading was reached, or the
\* document ended
IntervalClosed(h) ==
    \/ IntervalEnd(h) <= Len(visited)
    \/ pc = "returned"

\* the node a step takes, and the steps that take a node without a panic
NewNode == visited'[Len(visited')]
Took == Len(visited') = Len(visited) + 1 /\ pc' = "scan"
TookHeading == Took /\ NewNode.kind = "Heading"
TookOptions == Took /\ IsOptionsBlock(NewNode)
TookData == Took /\ IsDataBlock(NewNode)

----------------------------------------------------------------------------
(* C1: the depths of the open sections are strictly increasing from the    *)
(* outermost to the innermost section, whatever the depths of the headings *)
(* visited; push_heading with depth d removes every open section of depth  *)
(* >= d, keeps the others in place and pushes exactly one section of       *)
(* depth d.                                                                *)

DepthsIncreasing ==
    \A i, j \in 1..Len(section_stack.sections) :
        i < j => section_stack.sections[i].depth < section_stack.sections[j].depth

TruncateThenPush ==
    TookHeading =>
        LET d == NewNode.depth
            old == section_stack.sections
            new == section_stack'.sections
            kept == {i \in 1..Len(old) : old[i].depth < d}
        IN  /\ Len(new) = Cardinality(kept) + 1
            /\ \A i \in 1..(Len(new) - 1) : i \in kept /\ new[i] = old[i]
            /\ Last(new).depth = d

C1_DepthTruncation == []DepthsIncreasing /\ [][TruncateThenPush]_vars

\* a heading has closed two sections at once and a deeper one was opened
\* after it: depths 2, 3, 1, 2
C1_Witness ==
    /\ pc = "scan"
    /\ Len(visited) = 4
    /\ \A i \in 1..4 : visited[i].kind = "Heading"
    /\ <<visited[1].depth, visited[2].depth, visited[3].depth, visited[4].depth>>
          = <<2, 3, 1, 2>>
    /\ Len(section_stack.sections) = 2

----------------------------------------------------------------------------
(* C2: a section opened by push_heading starts with the options of the     *)
(* innermost section left open by the truncation, or with the root options *)
(* when none is left; so the current options, and the options of every     *)
(* emitted test case, are the root options overlaid with exactly the       *)
(* options blocks still in scope: a block merged inside a section that has *)
(* been closed, or inside one of its subsections, is not reflected.        *)

InheritOnPush ==
    TookHeading =>
        LET d == NewNode.depth
            old == section_stack.sections
            kept == {i \in 1..Len(old) : old[i].depth < d}
        IN  Last(section_stack'.sections).options =
                IF kept = {} THEN section_stack.root_options
                ELSE old[Max(kept)].options

ScopedOptions ==
    /\ get_options(section_stack) = Resolved(Done)
    /\ \A t \in 1..Len(test_cases) :
          test_cases[t].options = Resolved(IntervalEnd(test_cases[t].line_number) - 1)

C2_InheritAndRevert == []ScopedOptions /\ [][InheritOnPush]_vars

\* an options block that changed the options of its section went out of
\* scope, and a test case emitted after that carries the root options
C2_Witness ==
    /\ pc = "returned"
    /\ test_cases # <<>>
    /\ Last(test_cases).options = root_options
    /\ \E k \in 1..Len(visited) :
          /\ IsOptionsBlock(visited[k])
          /\ ~InScope(k, Len(visited))
          /\ k < Last(test_cases).line_number
          /\ merge_serialized(root_options, visited[k].value).value # root_options

----------------------------------------------------------------------------
(* C3, as stated: the fixture with the block "bar = false" between "red"   *)
(* and the heading "Pear" gives Apple {foo: 5, bar: true} and Pear         *)
(* {foo: 5, bar: false}.                                                   *)

\* a test case without its line number
Outline(tc) ==
    [name |-> tc.name, headings |-> tc.headings, options |-> tc.options,
     args |-> tc.args]

Outlines(cases) == [t \in 1..Len(cases) |-> Outline(cases[t])]

ExpectedApplePear ==
    <<[name |-> "Apple", headings |-> <<"Tests", "Fruits">>,
       options |-> [foo |-> 5, bar |-> TRUE],
       args |-> <<"Granny Smith", "red">>],
      [name |-> "Pear", headings |-> <<"Tests", "Fruits">>,
       options |-> [foo |-> 5, bar |-> FALSE],
       args |-> <<"Bartlett", "yellow">>]>>

ReturnedFrom(doc) ==
    pc = "returned" /\ visited = doc /\ root_options = OptionsDefault

C3_AsStated ==
    ReturnedFrom(FixtureDoc(6)) =>
        result # None /\ Outlines(result[1]) = ExpectedApplePear

(* C3, amended: with the block "bar = false" after the heading "Pear" the  *)
(* extraction returns exactly Apple {foo: 5, bar: true} and Pear           *)
(* {foo: 5, bar: false}, in this order.                                    *)

C3_BlockUnderPear ==
    ReturnedFrom(FixtureDoc(7)) =>
        result # None /\ Outlines(result[1]) = ExpectedApplePear

C3_Witness == ReturnedFrom(FixtureDoc(7)) /\ Len(result[1]) = 2

----------------------------------------------------------------------------
(* C4: an options block changes the options of the innermost open section  *)
(* only, or the root options only when no section is open; every other     *)
(* open section, the root options under an open section and the emitted    *)
(* test cases stay as they are.                                            *)

OptionsWriteFrame ==
    TookOptions =>
        LET old == section_stack.sections
            new == section_stack'.sections
            n == Len(old)
        IN  /\ Len(new) = n
            /\ \A i \in 1..(n - 1) : new[i] = old[i]
            /\ n > 0 => /\ section_stack'.root_options = section_stack.root_options
                        /\ new[n] = [old[n] EXCEPT !.options = new[n].options]
            /\ get_options(section_stack') =
                  merge_serialized(get_options(section_stack), NewNode.value).value
            /\ test_cases' = test_cases

C4_SnapshotIsolation == [][OptionsWriteFrame]_vars

\* an options block has changed the options of the inner of two open
\* sections after a test case was emitted
C4_Witness ==
    /\ pc = "scan"
    /\ visited # <<>>
    /\ IsOptionsBlock(Last(visited))
    /\ Len(section_stack.sections) = 2
    /\ section_stack.sections[1].options # section_stack.sections[2].options
    /\ test_cases # <<>>

----------------------------------------------------------------------------
(* C5, as stated: the options set inside a section are inherited by its    *)
(* descendant sections and by its sibling sections opened after it.        *)

InheritedByDescendant ==
    (TookHeading /\ section_stack.sections # <<>>
                 /\ NewNode.depth > Last(section_stack.sections).depth)
        => Last(section_stack'.sections).options
              = Last(section_stack.sections).options

InheritedBySibling ==
    (TookHeading /\ section_stack.sections # <<>>
                 /\ NewNode.depth = Last(section_stack.sections).depth)
        => Last(section_stack'.sections).options
              = Last(section_stack.sections).options

C5_AsStated == [][InheritedByDescendant /\ InheritedBySibling]_vars

(* C5, amended: the options set inside a section are inherited by its      *)
(* descendant sections; a sibling opened after it starts with the options  *)
(* of their parent (the root options when there is none), not with what    *)
(* the earlier sibling had set.                                            *)

SiblingStartsFromParent ==
    (TookHeading /\ section_stack.sections # <<>>
                 /\ NewNode.depth = Last(section_stack.sections).depth)
        => LET old == section_stack.sections IN
           Last(section_stack'.sections).options =
               IF Len(old) = 1 THEN section_stack.root_options
               ELSE old[Len(old) - 1].options

C5_DescendantsOnly == [][InheritedByDescendant /\ SiblingStartsFromParent]_vars

\* a sibling has just been opened after a section in which an options
\* block had changed the options
C5_Witness ==
    /\ pc = "scan"
    /\ Len(visited) >= 3
    /\ LET n == Len(visited) IN
       /\ visited[n].kind = "Heading"
       /\ HeadingLabel(visited[n]).outcome = "ok"
       /\ IsOptionsBlock(visited[n - 1])
       /\ visited[n - 2].kind = "Heading"
       /\ visited[n - 2].depth = visited[n].depth
       /\ merge_serialized(get_options(section_stack), visited[n - 1].value).value
             # get_options(section_stack)

----------------------------------------------------------------------------
(* The data blocks of the visited document *)

\* the texts of the data blocks among nodes from..to, in document order
RECURSIVE DataTexts(_, _)
DataTexts(from, to) ==
    IF to < from THEN <<>>
    ELSE IF IsDataBlock(visited[to])
    THEN Append(DataTexts(from, to - 1), visited[to].value)
    ELSE DataTexts(from, to - 1)

\* the args of the first t test cases, one after the other
RECURSIVE AllArgs(_, _)
AllArgs(cases, t) ==
    IF t = 0 THEN <<>> ELSE AllArgs(cases, t - 1) \o cases[t].args

\* the step just taken ran push_test_case at a heading or at the end
AtFlushPoint ==
    \/ Len(visited') = Len(visited) + 1 /\ NewNode.kind = "Heading"
    \/ pc = "scan" /\ pc' = "returned"

----------------------------------------------------------------------------
(* C6: a test case is emitted only at a heading or at the end of the       *)
(* document, and only when arguments are pending; every emitted test case  *)
(* has at least one argument, and a heading with no data block before the  *)
(* next heading or the end of the document gets no test case.              *)

EmitOnlyAtFlush ==
    test_cases' # test_cases =>
        /\ AtFlushPoint
        /\ args # <<>>
        /\ Len(test_cases') = Len(test_cases) + 1
        /\ Front(test_cases') = test_cases

NoEmptyTestCase ==
    /\ \A t \in 1..Len(test_cases) : Len(test_cases[t].args) >= 1
    /\ \A h \in HeadingsUpTo(Done) :
          (IntervalClosed(h) /\ DataTexts(h + 1, IntervalEnd(h) - 1) = <<>>)
              => \A t \in 1..Len(test_cases) : test_cases[t].line_number # h

C6_NoEmit == []NoEmptyTestCase /\ [][EmitOnlyAtFlush]_vars

\* the document ended with a test case for a later heading, after a heading
\* that had only an options block under it
C6_Witness ==
    /\ pc = "returned"
    /\ test_cases # <<>>
    /\ \E h \in HeadingsUpTo(Len(visited)) :
          /\ IntervalEnd(h) <= Len(visited)
          /\ IntervalEnd(h) > h + 1
          /\ \A k \in (h + 1)..(IntervalEnd(h) - 1) : IsOptionsBlock(visited[k])

----------------------------------------------------------------------------
(* C7: when merge_serialized rejects the text of an options block, the     *)
(* scan stops at that block, the panic carries the line of that block and  *)
(* the error of the merge, and the caller receives nothing, whatever had   *)
(* been flushed before.                                                    *)

OptionsPanicReport ==
    /\ \A k \in 1..Done : IsOptionsBlock(visited[k]) => from_str(visited[k].value).ok
    /\ (pc = "panicked" /\ IsOptionsBlock(Last(visited))) =>
          /\ ~from_str(Last(visited).value).ok
          /\ panic_message =
                Some(<<"Failed to parse options from code block at line {}: {}",
                       Len(visited), from_str(Last(visited).value).error>>)
          /\ result = None

StoppedAfterPanic == pc = "panicked" => UNCHANGED vars

C7_FatalOptionsError == []OptionsPanicReport /\ [][StoppedAfterPanic]_vars

\* a rejected options block after a test case had been flushed
C7_Witness ==
    /\ pc = "panicked"
    /\ IsOptionsBlock(Last(visited))
    /\ test_cases # <<>>

----------------------------------------------------------------------------
(* C8, as stated: a heading is accepted only when it has exactly one child *)
(* and that child is plain text; any other heading stops the extraction    *)
(* with no test cases returned.                                            *)

SinglePlainText(heading) ==
    Len(heading.children) = 1 /\ heading.children[1].kind = "Text"

C8_MalformedHeading ==
    /\ \A h \in HeadingsUpTo(Done) : SinglePlainText(visited[h])
    /\ (pc = "panicked" /\ Last(visited).kind = "Heading") =>
          ~SinglePlainText(Last(visited)) /\ result = None

----------------------------------------------------------------------------
(* C9: a test case is named after the innermost open section at its flush, *)
(* its headings are the other open sections outermost first, and its line  *)
(* is the line of the innermost one; with no heading seen it is            *)
(* "(Unnamed test)" with no headings and line 0, which happens only to the *)
(* data blocks before the first heading.                                   *)

Labels(path) == [i \in 1..Len(path) |-> visited[path[i]].children[1].value]

IdentityAtFlush ==
    test_cases' # test_cases =>
        LET tc == Last(test_cases')
            open == section_stack.sections
        IN  IF open = <<>>
            THEN tc.name = UnnamedTest /\ tc.headings = <<>> /\ tc.line_number = 0
            ELSE /\ tc.name = Last(open).name
                 /\ tc.headings = [i \in 1..(Len(open) - 1) |-> open[i].name]
                 /\ tc.line_number = Last(open).line

IdentityOfTestCases ==
    \A t \in 1..Len(test_cases) :
        LET tc == test_cases[t]
            h == tc.line_number
            flush == IntervalEnd(h)
        IN  IF h = 0
            THEN /\ tc.name = UnnamedTest
                 /\ tc.headings = <<>>
                 /\ t = 1
                 /\ HeadingsUpTo(flush - 1) = {}
                 /\ tc.args = DataTexts(1, flush - 1)
            ELSE /\ h \in HeadingsUpTo(Done)
                 /\ Append(tc.headings, tc.name) = Labels(OpenPath(flush - 1))
                 /\ Last(OpenPath(flush - 1)) = h

C9_TestCaseIdentity == []IdentityOfTestCases /\ [][IdentityAtFlush]_vars

\* an unnamed test case for the data before the first heading, then a test
\* case two sections deep
C9_Witness ==
    /\ pc = "returned"
    /\ Len(test_cases) = 2
    /\ test_cases[1].name = UnnamedTest
    /\ Len(test_cases[2].headings) = 1
    /\ test_cases[2].headings[1] # test_cases[2].name

----------------------------------------------------------------------------
(* C10: when the extraction returns, the args of the returned test cases,  *)
(* one after the other, are the texts of all data blocks in document       *)
(* order, and the test cases are in the order of their flush points.       *)

ArgsConserved ==
    pc = "returned" =>
        /\ result # None
        /\ AllArgs(result[1], Len(result[1])) = DataTexts(1, Len(visited))
        /\ \A s, t \in 1..Len(result[1]) :
              s < t => IntervalEnd(result[1][s].line_number)
                          < IntervalEnd(result[1][t].line_number)

C10_ArgConservation == ArgsConserved

\* two test cases returned, the first with two different data blocks
C10_Witness ==
    /\ pc = "returned"
    /\ result # None
    /\ Len(result[1]) = 2
    /\ Len(result[1][1].args) = 2
    /\ result[1][1].args[1] # result[1][1].args[2]

----------------------------------------------------------------------------
(* C11: an options block taken while no section is open is merged onto the *)
(* root options and stored there; a section opened with no enclosing open  *)
(* section starts from that updated root value; in a document without any  *)
(* options block every test case carries the root options the caller gave. *)

RootWrite ==
    (TookOptions /\ section_stack.sections = <<>>) =>
        /\ section_stack'.sections = <<>>
        /\ section_stack'.root_options =
              merge_serialized(section_stack.root_options, NewNode.value).value

OutermostStartsFromRoot ==
    (TookHeading /\ Len(section_stack'.sections) = 1) =>
        section_stack'.sections[1].options = section_stack.root_options

NoOptionsBlockKeepsRoot ==
    (\A k \in 1..Done : ~IsOptionsBlock(visited[k])) =>
        /\ section_stack.root_options = root_options
        /\ \A t \in 1..Len(test_cases) : test_cases[t].options = root_options

C11_RootOptions ==
    []NoOptionsBlockKeepsRoot /\ [][RootWrite /\ OutermostStartsFromRoot]_vars

\* an options block before the first heading changed the root options, and
\* a heading that closed every open section started from the changed value
C11_Witness ==
    /\ pc = "scan"
    /\ Len(visited) >= 3
    /\ IsOptionsBlock(visited[1])
    /\ visited[2].kind = "Heading"
    /\ Last(visited).kind = "Heading"
    /\ Len(section_stack.sections) = 1
    /\ section_stack.root_options # root_options
    /\ section_stack.sections[1].options = section_stack.root_options

----------------------------------------------------------------------------
(* C12: the options of a test case are the current options at the flush    *)
(* that emits it: the options its section was opened with, overlaid with   *)
(* every options block of its interval, also the blocks that come after    *)
(* some or all of its data blocks.                                         *)

\* base overlaid with the options blocks among nodes from..to
RECURSIVE MergedThrough(_, _, _)
MergedThrough(base, from, to) ==
    IF to < from THEN base
    ELSE IF IsOptionsBlock(visited[to])
    THEN merge_serialized(MergedThrough(base, from, to - 1), visited[to].value).value
    ELSE MergedThrough(base, from, to - 1)

CapturedAtFlush ==
    test_cases' # test_cases =>
        Last(test_cases').options = get_options(section_stack)

EmissionTimeOptions ==
    \A t \in 1..Len(test_cases) :
        LET h == test_cases[t].line_number
        IN  test_cases[t].options =
                MergedThrough(Resolved(h), h + 1, IntervalEnd(h) - 1)

C12_CapturedAtEmission == []EmissionTimeOptions /\ [][CapturedAtFlush]_vars

\* a test case whose options were changed by an options block that follows
\* one of its data blocks
C12_Witness ==
    /\ pc = "returned"
    /\ \E t \in 1..Len(test_cases) :
          LET h == test_cases[t].line_number IN
          \E j, k \in (h + 1)..(IntervalEnd(h) - 1) :
              /\ j < k
              /\ IsDataBlock(visited[j])
              /\ IsOptionsBlock(visited[k])
              /\ test_cases[t].options # Resolved(j)

----------------------------------------------------------------------------
(* C13: the args of a test case are exactly the data blocks between the    *)
(* heading it is named after (or the start of the document) and the next   *)
(* heading of any depth (or the end of the document); every such interval  *)
(* with a data block gets one test case, so data blocks on both sides of a *)
(* heading are never in the same test case.                                *)

\* the test cases emitted for heading h (h = 0: the start of the document)
CasesOf(h) == {t \in 1..Len(test_cases) : test_cases[t].line_number = h}

GroupedByInterval ==
    /\ \A t \in 1..Len(test_cases) :
          LET h == test_cases[t].line_number IN
          /\ h \in {0} \cup HeadingsUpTo(Done)
          /\ test_cases[t].args = DataTexts(h + 1, IntervalEnd(h) - 1)
          /\ test_cases[t].name =
                IF h = 0 THEN UnnamedTest ELSE visited[h].children[1].value
    /\ \A h \in {0} \cup HeadingsUpTo(Done) :
          Cardinality(CasesOf(h)) =
              IF IntervalClosed(h) /\ DataTexts(h + 1, IntervalEnd(h) - 1) # <<>>
              THEN 1 ELSE 0

C13_Grouping == GroupedByInterval

\* a data block under a heading and one under a deeper heading that follows
\* it ended up in two test cases
C13_Witness ==
    /\ pc = "returned"
    /\ Len(visited) = 4
    /\ visited[1].kind = "Heading"
    /\ IsDataBlock(visited[2])
    /\ visited[3].kind = "Heading"
    /\ visited[3].depth > visited[1].depth
    /\ IsDataBlock(visited[4])
    /\ Len(test_cases) = 2

----------------------------------------------------------------------------
(* C14: an options block leaves the pending arguments, the test cases and  *)
(* the depth, name and line of every open section as they are; a data      *)
(* block leaves the section stack, the root options and the test cases as  *)
(* they are and appends exactly its text to the pending arguments; any     *)
(* other node that is not a heading changes nothing.                       *)

TookOther == Took /\ NewNode.kind \notin {"Heading", "Code"}

\* a section without its options
Place(s) == [depth |-> s.depth, name |-> s.name, line |-> s.line]

Places(sections) == [i \in 1..Len(sections) |-> Place(sections[i])]

OptionsBlockFrame ==
    TookOptions =>
        /\ args' = args
        /\ test_cases' = test_cases
        /\ Places(section_stack'.sections) = Places(section_stack.sections)

DataBlockFrame ==
    TookData =>
        /\ section_stack' = section_stack
        /\ test_cases' = test_cases
        /\ args' = Append(args, NewNode.value)

OtherNodeFrame ==
    TookOther =>
        UNCHANGED <<section_stack, test_cases, args, result, panic_message>>

C14_NonHeadingFrame ==
    [][OptionsBlockFrame /\ DataBlockFrame /\ OtherNodeFrame]_vars

\* under an open section with a pending argument, an options block, a data
\* block and a node of another kind have all been taken
C14_Witness ==
    /\ pc = "scan"
    /\ section_stack.sections # <<>>
    /\ Len(args) >= 1
    /\ \E i, j, k \in 1..Len(visited) :
          /\ IsOptionsBlock(visited[i])
          /\ IsDataBlock(visited[j])
          /\ j < i
          /\ visited[k].kind = "Paragraph"

----------------------------------------------------------------------------
(* C15: once a heading has been taken the section stack is never empty     *)
(* again, so the root options are not written any more and no later test   *)
(* case has line 0 or a name that is not a heading's; a heading that       *)
(* closes every open section opens its own with the root options as they   *)
(* stood before the first heading.                                         *)

StackStaysOpen ==
    section_stack.sections # <<>> =>
        /\ section_stack'.sections # <<>>
        /\ section_stack'.root_options = section_stack.root_options
        /\ test_cases' # test_cases =>
              /\ Last(test_cases').line_number # 0
              /\ Last(test_cases').name = Last(section_stack.sections).name

\* the root options overlaid with the options blocks before the first heading
RootBeforeFirstHeading ==
    LET first == IntervalEnd(0) IN MergedThrough(root_options, 1, first - 1)

NeverEmptyAgain ==
    HeadingsUpTo(Done) # {} =>
        /\ section_stack.sections # <<>>
        /\ section_stack.root_options = RootBeforeFirstHeading
        /\ Len(section_stack.sections) = 1 =>
              MergedThrough(RootBeforeFirstHeading, InnermostAt(Done) + 1, Done)
                  = section_stack.sections[1].options
        /\ \A t \in 1..Len(test_cases) :
              test_cases[t].line_number = 0 => t = 1 /\ IntervalEnd(0) <= Done + 1

C15_StackNeverEmptyAgain == []NeverEmptyAgain /\ [][StackStaysOpen]_vars

\* after an options block at the root and one inside a section, a heading
\* closed every open section and opened its own from the root options
C15_Witness ==
    /\ pc = "scan"
    /\ Len(visited) = 4
    /\ IsOptionsBlock(visited[1])
    /\ visited[2].kind = "Heading"
    /\ IsOptionsBlock(visited[3])
    /\ visited[4].kind = "Heading"
    /\ Len(section_stack.sections) = 1
    /\ section_stack.sections[1].options = section_stack.root_options
    /\ section_stack.root_options # root_options
    /\ merge_serialized(section_stack.root_options, visited[3].value).value
          # section_stack.root_options

====
